---------------------------- MODULE Spec2Model ----------------------------
(***************************************************************************)
(* A model of git-structured-log (src/src/main.rs): print_commits builds   *)
(* the reference map, walks the revision range, resolves the requested     *)
(* format codes of every commit into a serde_json Map and prints the Map   *)
(* as a JSON object or as a CSV row.                                       *)
(*                                                                         *)
(* The repository (git2 / libgit2) is the environment.  Its documented     *)
(* contract is modelled where the code depends on it:                      *)
(*   - Repository::diff_tree_to_tree: "You can pass None to indicate an    *)
(*     empty tree, although it is an error to pass None for both";         *)
(*   - serde_json::Map is a BTreeMap (keys in byte order) unless the build *)
(*     enables the preserve_order feature (IndexMap, insertion order); in  *)
(*     both, insert of a key that is present replaces its value in place.  *)
(***************************************************************************)
EXTENDS Integers, Sequences, FiniteSets, TLC

VARIABLES
    formats,          \* formats_input.split(','), main.rs:77
    output_format,    \* "json" | "csv", main.rs:70
    oldest_first,     \* main.rs:71
    preserve_order,   \* build of serde_json::Map, main.rs:5
    commits,          \* the commits of the revision range, oldest first; oid = index
    refs,             \* repository.references(), in enumeration order
    pc,               \* position in print_commits
    refIdx,           \* position of the iterator of main.rs:81
    reference_map,    \* main.rs:78
    revwalk,          \* oids the walk still has to yield, main.rs:95
    prevcommit,       \* main.rs:101
    commit,           \* main.rs:106
    diffstats,        \* main.rs:109
    print_header,     \* main.rs:103
    out,              \* the lines printed to standard output
    err               \* the Err print_commits returned

vars == <<formats, output_format, oldest_first, preserve_order, commits, refs,
          pc, refIdx, reference_map, revwalk, prevcommit, commit, diffstats,
          print_header, out, err>>

(***************************************************************************)
(* Bounds of the model.                                                    *)
(***************************************************************************)
MaxFields == 2
MaxCommits == 2
MaxRefs == 2

\* Option<T>: None, or Some(x)
None == <<>>
Some(x) == <<x>>
NoErr == ""

-----------------------------------------------------------------------------
(***************************************************************************)
(* Text helpers.                                                           *)
(***************************************************************************)
HexDigit(d) ==
    <<"0","1","2","3","4","5","6","7","8","9","a","b","c","d","e","f">>[d + 1]

\* format!("{:02x}", byte) for every byte of the oid; an oid is one byte here
oid_to_hex_string(oid) == HexDigit(oid \div 16) \o HexDigit(oid % 16)

RECURSIVE JoinFrom(_, _, _)
JoinFrom(strs, i, sep) ==
    IF i > Len(strs) THEN ""
    ELSE IF i = Len(strs) THEN strs[i]
    ELSE strs[i] \o sep \o JoinFrom(strs, i + 1, sep)

\* Vec<String>::join
Join(strs, sep) == JoinFrom(strs, 1, sep)

Pad2(n) == IF n < 10 THEN "0" \o ToString(n) ELSE ToString(n)

\* git_time_to_iso8601: seconds since the epoch shown in the stored offset
\* (RFC 3339); the model's times lie within 1970-01-01
git_time_to_iso8601(time) ==
    LET local == time.seconds + time.offset_minutes * 60
        off   == time.offset_minutes
        aoff  == IF off < 0 THEN 0 - off ELSE off
    IN  "1970-01-01T" \o Pad2(local \div 3600) \o ":" \o Pad2((local % 3600) \div 60)
        \o ":" \o Pad2(local % 60)
        \o (IF off < 0 THEN "-" ELSE "+") \o Pad2(aoff \div 60) \o ":" \o Pad2(aoff % 60)

-----------------------------------------------------------------------------
(***************************************************************************)
(* serde_json values and their Display (compact JSON).                     *)
(***************************************************************************)
VString(s) == [t |-> "str", s |-> s]
VNumber(n) == [t |-> "num", n |-> n]
VArray(a)  == [t |-> "arr", a |-> a]

Quote(s) == "\"" \o s \o "\""

\* Value::to_string: a string is printed as a JSON string literal
ValueToString(v) ==
    CASE v.t = "str" -> Quote(v.s)
      [] v.t = "num" -> ToString(v.n)
      [] v.t = "arr" -> "[" \o Join([i \in 1..Len(v.a) |-> Quote(v.a[i])], ",") \o "]"

\* byte order of the format codes (String's Ord, the order of a BTreeMap)
SortedCodes ==
    <<"B","D","G?","GG","GK","GS","H","N","P","T","aD","aE","aI","aN","ad","ae",
      "ai","an","ar","at","b","cD","cI","cd","ci","cr","ct","d","dd","df","di",
      "h","p","s","t","zz">>

CodeRank(c) == CHOOSE i \in 1..Len(SortedCodes) : SortedCodes[i] = c

MapHas(map, k) == \E i \in 1..Len(map) : map[i].k = k

\* Map::insert: an entry whose key is present has its value replaced where it
\* stands; a new key goes to the end (preserve_order) or to its sorted place
MapInsert(map, k, v, po) ==
    IF MapHas(map, k)
    THEN [i \in 1..Len(map) |-> IF map[i].k = k THEN [k |-> k, v |-> v] ELSE map[i]]
    ELSE IF po THEN Append(map, [k |-> k, v |-> v])
    ELSE LET before == SelectSeq(map, LAMBDA e : CodeRank(e.k) < CodeRank(k))
             after  == SelectSeq(map, LAMBDA e : CodeRank(e.k) > CodeRank(k))
         IN  before \o <<[k |-> k, v |-> v]>> \o after

MapKeys(map) == [i \in 1..Len(map) |-> map[i].k]

\* Display of Value::Object(map)
ObjectToString(map) ==
    "{" \o Join([i \in 1..Len(map) |-> Quote(map[i].k) \o ":" \o ValueToString(map[i].v)], ",")
    \o "}"

\* a faulty row: the cells are the bare text of the values
CsvRowBare(map) ==
    Join([i \in 1..Len(map) |->
            IF map[i].v.t = "str" THEN map[i].v.s ELSE ValueToString(map[i].v)], ",")

\* main.rs:169 and main.rs:173-177
CsvHeader(map) == Join(MapKeys(map), ",")
CsvRow(map) == Join([i \in 1..Len(map) |-> ValueToString(map[i].v)], ",")

-----------------------------------------------------------------------------
(***************************************************************************)
(* The repository.  A commit of the range is its position in history (its  *)
(* oid, one byte) and a record [files, hasTree, bad]: the files of its     *)
(* tree (one line each), whether the tree object can be loaded, and which  *)
(* accessor of the commit fails ("none", or the format code that reads it).*)
(* History is linear: the parent of commit k is commit k - 1.              *)
(***************************************************************************)
CommitKind(files, hasTree, bad) == [files |-> files, hasTree |-> hasTree, bad |-> bad]

FileBit(f) == IF f = "a" THEN 1 ELSE 2

RECURSIVE SumBits(_)
SumBits(S) == IF S = {} THEN 0 ELSE LET f == CHOOSE x \in S : TRUE
                                    IN  FileBit(f) + SumBits(S \ {f})

\* Commit::tree_id: the id is stored in the commit, whether or not the tree loads
tree_id(c) == 160 + SumBits(commits[c].files)

\* Commit::parent_ids
parent_ids(c) == IF c > 1 THEN <<c - 1>> ELSE <<>>

author_when(c) == [seconds |-> 3600 * c + 5, offset_minutes |-> 60]
commit_time(c) == [seconds |-> 3600 * c + 7265, offset_minutes |-> 0 - 90]

Ok(v) == [ok |-> TRUE, val |-> v]
Err(e) == [ok |-> FALSE, err |-> e]

Git2Error == "git2 error"

\* Object::short_id: the model abbreviates to the first hex digit
short_id(oid) == HexDigit(oid \div 16)

\* object_to_hex_string, main.rs:195-200
object_to_hex_string(oid, fails) ==
    IF fails THEN Err(Git2Error) ELSE Ok(short_id(oid))

\* a faulty invalid_format: an unsupported code yields an empty value, no error
invalid_format_lenient(format, reason) == Ok(VString(""))

\* invalid_format, main.rs:211-213 (the message's backquotes are written ' here)
invalid_format(format, reason) ==
    Err("Invalid format '" \o format \o "': " \o reason)

\* Option<&str>::ok_or(msg) on a text accessor of the commit
TextOrErr(c, code, text, msg) ==
    IF commits[c].bad = code THEN Err(msg) ELSE Ok(VString(text))

\* Repository::diff_tree_to_tree(old, new).map(|d| d.stats().ok()).ok().flatten():
\* the outcomes the backend can produce.  None stands for the empty tree; with
\* both sides None libgit2 documents an error and its implementation yields the
\* empty diff.
DiffTreeToTree(old, new) ==
    IF old = None /\ new = None
    THEN {None, Some([files_changed |-> 0, insertions |-> 0, deletions |-> 0])}
    ELSE LET o == IF old = None THEN {} ELSE old[1]
             n == IF new = None THEN {} ELSE new[1]
         IN  {Some([files_changed |-> Cardinality((o \ n) \cup (n \ o)),
                    insertions    |-> Cardinality(n \ o),
                    deletions     |-> Cardinality(o \ n)])}

\* diffstats.as_ref().map(|ds| ds.<count>().to_string()).unwrap_or_default()
StatString(ds, count) ==
    IF ds = None THEN "" ELSE ToString(ds[1][count])

\* reference_map.remove(&commit.id()).unwrap_or_else(Vec::new)
RefMapTake(rm, c) == IF c \in DOMAIN rm THEN rm[c] ELSE <<>>
RefMapRemove(rm, c) == [x \in DOMAIN rm \ {c} |-> rm[x]]

\* the match of main.rs:118-164: the value of one format code, or the error
Resolve(format, c, ds, rm) ==
    CASE format = "H" -> Ok(VString(oid_to_hex_string(c)))
      [] format = "h" ->
            LET r == object_to_hex_string(c, commits[c].bad = "h")
            IN  IF r.ok THEN Ok(VString(r.val)) ELSE r
      [] format = "T" -> Ok(VString(oid_to_hex_string(tree_id(c))))
      [] format = "t" ->
            IF ~commits[c].hasTree THEN Err(Git2Error)
            ELSE LET r == object_to_hex_string(tree_id(c), commits[c].bad = "t")
                 IN  IF r.ok THEN Ok(VString(r.val)) ELSE r
      [] format = "P" ->
            Ok(VArray([i \in 1..Len(parent_ids(c)) |-> oid_to_hex_string(parent_ids(c)[i])]))
      [] format = "p" ->
            IF parent_ids(c) # <<>> /\ commits[c].bad = "p" THEN Err(Git2Error)
            ELSE Ok(VArray([i \in 1..Len(parent_ids(c)) |-> short_id(parent_ids(c)[i])]))
      [] format = "an" -> TextOrErr(c, "an", "Alice", "Author name contains invalid UTF8")
      [] format = "ae" -> TextOrErr(c, "ae", "alice@example.org", "Author email contains invalid UTF8")
      [] format \in {"aN", "aE"} ->
            invalid_format(format, "Mailmaps not currently supported, consider using 'an'/'ae' instead of 'aN'/'aE'")
      [] format = "at" -> Ok(VNumber(author_when(c).seconds))
      [] format = "aI" -> Ok(VString(git_time_to_iso8601(author_when(c))))
      [] format \in {"ad", "aD", "ar", "ai"} ->
            invalid_format(format, "Formatted dates not supported, use 'aI' and format the date yourself")
      [] format = "ct" -> Ok(VNumber(commit_time(c).seconds))
      [] format = "cI" -> Ok(VString(git_time_to_iso8601(commit_time(c))))
      [] format \in {"cd", "cD", "cr", "ci"} ->
            invalid_format(format, "Formatted dates not supported, use 'cI' and format the date yourself")
      [] format = "d" ->
            invalid_format(format, "Formatted ref names not supported, use 'D' and format the names yourself")
      [] format = "D" -> Ok(VArray(RefMapTake(rm, c)))
      [] format = "s" -> TextOrErr(c, "s", "fix", "Commit header contains invalid UTF8")
      [] format = "b" ->
            invalid_format(format, "Body not supported, use 'B' and extract the body yourself")
      [] format = "B" -> TextOrErr(c, "B", "fix", "Commit message contains invalid UTF8")
      [] format = "N" -> invalid_format(format, "Notes not currently supported")
      [] format = "df" -> Ok(VString(StatString(ds, "files_changed")))
      [] format = "di" -> Ok(VString(StatString(ds, "insertions")))
      [] format = "dd" -> Ok(VString(StatString(ds, "deletions")))
      [] format \in {"GG", "G?", "GS", "GK"} ->
            invalid_format(format, "Signatures not currently supported")
      [] OTHER -> invalid_format(format, "Not found")

\* the reference map after the code has been resolved: only D drains it
ResolveRefMap(format, c, rm) ==
    IF format = "D" THEN RefMapRemove(rm, c) ELSE rm

\* a faulty loop: a field that fails is left out of the row and the loop goes on
RECURSIVE ResolveFieldsSkip(_, _, _, _, _, _, _)
ResolveFieldsSkip(fs, i, c, ds, rm, map, po) ==
    IF i > Len(fs) THEN [ok |-> TRUE, map |-> map, rm |-> rm]
    ELSE LET r == Resolve(fs[i], c, ds, rm)
         IN  IF r.ok
             THEN ResolveFieldsSkip(fs, i + 1, c, ds, ResolveRefMap(fs[i], c, rm),
                                    MapInsert(map, fs[i], r.val, po), po)
             ELSE ResolveFieldsSkip(fs, i + 1, c, ds, rm, map, po)

\* the loop of main.rs:116-165 from field i on: the Map of the row and the
\* reference map left, or the first error
RECURSIVE ResolveFields(_, _, _, _, _, _, _)
ResolveFields(fs, i, c, ds, rm, map, po) ==
    IF i > Len(fs) THEN [ok |-> TRUE, map |-> map, rm |-> rm]
    ELSE LET r == Resolve(fs[i], c, ds, rm)
         IN  IF r.ok
             THEN ResolveFields(fs, i + 1, c, ds, ResolveRefMap(fs[i], c, rm),
                                MapInsert(map, fs[i], r.val, po), po)
             ELSE [ok |-> FALSE, err |-> r.err, rm |-> rm]

ResolveRow(fs, c, ds, rm, po) == ResolveFields(fs, 1, c, ds, rm, <<>>, po)

\* Commit::tree().ok(): the files of the tree, or None
TreeOf(c) == IF commits[c].hasTree THEN Some(commits[c].files) ELSE None

-----------------------------------------------------------------------------
(***************************************************************************)
(* Initial states: the arguments and the repository of a run.  Five        *)
(* families of runs are explored: every field list over FieldCodes against *)
(* commits whose text decodes or not; the diff codes against trees that    *)
(* differ or are missing; the ref code against every list of refs; the     *)
(* abbreviated hashes against objects that abbreviate or not; and every    *)
(* format code on its own.  The strings of the model hold no character     *)
(* that JSON escapes.                                                      *)
(***************************************************************************)
SeqsUpTo(S, n) == UNION {[1..k -> S] : k \in 0..n}
FieldLists(codes) == SeqsUpTo(codes, MaxFields) \ {<<>>}

FieldCodes == {"H", "an", "at", "D", "df", "aD", "zz"}
DiffCodes == {"H", "df", "di", "dd"}
RefCodes == {"D", "H"}
HashCodes == {"h", "t", "p"}
AllCodes == {SortedCodes[i] : i \in 1..Len(SortedCodes)}

Healthy == CommitKind({"a"}, TRUE, "none")
TextKinds == {Healthy, CommitKind({"a", "b"}, TRUE, "an")}
HashKinds == {Healthy, CommitKind({"a"}, TRUE, "h"), CommitKind({"b"}, TRUE, "p"),
              CommitKind({"a"}, FALSE, "none")}
TreeKinds == {CommitKind({}, TRUE, "none"), Healthy,
              CommitKind({"a", "b"}, TRUE, "none"), CommitKind({"a"}, FALSE, "none")}

\* a ref: the iterator yields it (ok) or an error; it has a shorthand or not;
\* it peels to a commit (target) or not
Ref(name, ok, shorthand, target) ==
    [name |-> name, ok |-> ok, shorthand |-> shorthand, target |-> target]

RefName(i) == "r" \o ToString(i)

RefShapes ==
    {Ref("", TRUE, TRUE, Some(1)), Ref("", TRUE, TRUE, Some(2)), Ref("", TRUE, TRUE, None),
     Ref("", TRUE, FALSE, Some(1)), Ref("", FALSE, TRUE, Some(1))}

\* the refs of a repository: the i-th ref enumerated is named RefName(i)
RefLists ==
    {[i \in 1..Len(sh) |-> [sh[i] EXCEPT !.name = RefName(i)]] :
        sh \in SeqsUpTo(RefShapes, MaxRefs)}

InitFields ==
    /\ refs \in {<<>>, <<Ref(RefName(1), TRUE, TRUE, Some(1))>>}
    /\ commits \in SeqsUpTo(TextKinds, MaxCommits)
    /\ formats \in FieldLists(FieldCodes)
    /\ preserve_order \in BOOLEAN

InitTrees ==
    /\ refs = <<>>
    /\ commits \in SeqsUpTo(TreeKinds, MaxCommits)
    /\ formats \in FieldLists(DiffCodes)
    /\ preserve_order = FALSE

InitRefs ==
    /\ refs \in RefLists
    /\ commits \in SeqsUpTo({Healthy}, MaxCommits)
    /\ formats \in FieldLists(RefCodes)
    /\ preserve_order = FALSE

InitHashes ==
    /\ refs = <<>>
    /\ commits \in SeqsUpTo(HashKinds, MaxCommits)
    /\ formats \in FieldLists(HashCodes)
    /\ preserve_order = FALSE

InitEveryCode ==
    /\ refs = <<Ref(RefName(1), TRUE, TRUE, Some(1))>>
    /\ commits \in SeqsUpTo({Healthy}, MaxCommits)
    /\ formats \in {<<c>> : c \in AllCodes}
    /\ preserve_order = FALSE

Init ==
    /\ InitFields \/ InitTrees \/ InitRefs \/ InitHashes \/ InitEveryCode
    /\ output_format \in {"json", "csv"}
    /\ oldest_first \in BOOLEAN
    /\ pc = "start"
    /\ refIdx = 1
    /\ reference_map = <<>>
    /\ revwalk = <<>>
    /\ prevcommit = None
    /\ commit = None
    /\ diffstats = None
    /\ print_header = TRUE
    /\ out = <<>>
    /\ err = NoErr

inputs == <<formats, output_format, oldest_first, preserve_order, commits, refs>>

-----------------------------------------------------------------------------
(***************************************************************************)
(* print_commits, main.rs:66-186.                                          *)
(***************************************************************************)
Contains(seq, x) == \E i \in 1..Len(seq) : seq[i] = x

\* main.rs:80: the reference map is built only when D is requested
Start ==
    /\ pc = "start"
    /\ pc' = IF Contains(formats, "D") THEN "refs" ELSE "revwalk"
    /\ UNCHANGED <<inputs, refIdx, reference_map, revwalk, prevcommit, commit,
                   diffstats, print_header, out, err>>

\* reference_map.entry(target).or_insert_with(Vec::new).push(name)
RefMapPush(rm, target, name) ==
    [x \in DOMAIN rm \cup {target} |->
        IF x = target THEN Append(RefMapTake(rm, target), name) ELSE rm[x]]

\* one iteration of the loop of main.rs:81-92
IndexRef ==
    /\ pc = "refs"
    /\ refIdx <= Len(refs)
    /\ LET r == refs[refIdx] IN
        \/ /\ ~r.ok                                         \* reference_result?
           /\ pc' = "failed"
           /\ err' = Git2Error
           /\ UNCHANGED <<refIdx, reference_map>>
        \/ /\ r.ok /\ ~r.shorthand                          \* None => continue
           /\ refIdx' = refIdx + 1
           /\ UNCHANGED <<pc, err, reference_map>>
        \/ /\ r.ok /\ r.shorthand /\ r.target = None        \* peel_to_commit()?
           /\ pc' = "failed"
           /\ err' = Git2Error
           /\ UNCHANGED <<refIdx, reference_map>>
        \/ /\ r.ok /\ r.shorthand /\ r.target # None
           /\ reference_map' = RefMapPush(reference_map, r.target[1], r.name)
           /\ refIdx' = refIdx + 1
           /\ UNCHANGED <<pc, err>>
    /\ UNCHANGED <<inputs, revwalk, prevcommit, commit, diffstats, print_header, out>>

\* the iterator of main.rs:81 is exhausted
IndexDone ==
    /\ pc = "refs"
    /\ refIdx > Len(refs)
    /\ pc' = "revwalk"
    /\ UNCHANGED <<inputs, refIdx, reference_map, revwalk, prevcommit, commit,
                   diffstats, print_header, out, err>>

\* the order of the walk: newest first, or oldest first under Sort::REVERSE
WalkOrder(n, reverse) ==
    [i \in 1..n |-> IF reverse THEN i ELSE n + 1 - i]

\* main.rs:95-99
PushRange ==
    /\ pc = "revwalk"
    /\ revwalk' = WalkOrder(Len(commits), oldest_first)
    /\ pc' = "walk"
    /\ UNCHANGED <<inputs, refIdx, reference_map, prevcommit, commit, diffstats,
                   print_header, out, err>>

\* a faulty slot: the previous commit is never stored
NextPrevStale(oid) == None

\* the commit the previous-commit slot holds after the step of main.rs:115
NextPrev(oid) == Some(oid)

\* main.rs:104-115: the next commit of the walk, its diff against the tree of
\* the previous commit, and the update of the previous commit
NextCommit ==
    /\ pc = "walk"
    /\ revwalk # <<>>
    /\ LET oid == Head(revwalk) IN
        \/ /\ prevcommit # None
           /\ ~commits[prevcommit[1]].hasTree               \* pc.tree().unwrap()
           /\ pc' = "panicked"
           /\ UNCHANGED <<revwalk, prevcommit, commit, diffstats>>
        \/ /\ prevcommit # None => commits[prevcommit[1]].hasTree
           /\ LET prevtree == IF prevcommit = None THEN None ELSE TreeOf(prevcommit[1])
              IN  diffstats' \in DiffTreeToTree(prevtree, TreeOf(oid))
           /\ prevcommit' = NextPrev(oid)
           /\ commit' = Some(oid)
           /\ revwalk' = Tail(revwalk)
           /\ pc' = "row"
    /\ UNCHANGED <<inputs, refIdx, reference_map, print_header, out, err>>

Line(kind, oid, map, text) == [kind |-> kind, oid |-> oid, map |-> map, text |-> text]

\* main.rs:166-183: the lines printed for the Map of a row
PrintRow(fmt, header, oid, map) ==
    IF fmt = "csv"
    THEN (IF header THEN <<Line("header", oid, map, CsvHeader(map))>> ELSE <<>>)
         \o <<Line("row", oid, map, CsvRow(map))>>
    ELSE <<Line("json", oid, map, ObjectToString(map))>>

\* a faulty flag: print_header is never cleared
HeaderAfterStuck(fmt, header) == header

\* main.rs:168-172: print_header after a row has been printed
HeaderAfter(fmt, header) == header /\ fmt # "csv"

\* main.rs:116-183: the fields of the commit are resolved, and the row printed
\* unless a field failed
EmitRow ==
    /\ pc = "row"
    /\ LET r == ResolveRow(formats, commit[1], diffstats, reference_map, preserve_order) IN
        \/ /\ ~r.ok
           /\ pc' = "failed"
           /\ err' = r.err
           /\ reference_map' = r.rm
           /\ UNCHANGED <<out, print_header>>
        \/ /\ r.ok
           /\ out' = out \o PrintRow(output_format, print_header, commit[1], r.map)
           /\ print_header' = HeaderAfter(output_format, print_header)
           /\ reference_map' = r.rm
           /\ pc' = "walk"
           /\ UNCHANGED err
    /\ UNCHANGED <<inputs, refIdx, revwalk, prevcommit, commit, diffstats>>

\* main.rs:185: the walk is exhausted
WalkDone ==
    /\ pc = "walk"
    /\ revwalk = <<>>
    /\ pc' = "done"
    /\ UNCHANGED <<inputs, refIdx, reference_map, revwalk, prevcommit, commit,
                   diffstats, print_header, out, err>>

Next == Start \/ IndexRef \/ IndexDone \/ PushRange \/ NextCommit \/ EmitRow \/ WalkDone

Spec == Init /\ [][Next]_vars

-----------------------------------------------------------------------------
(***************************************************************************)
(* What the properties speak of.                                           *)
(***************************************************************************)
Supported ==
    {"H", "h", "T", "t", "P", "p", "an", "ae", "at", "aI", "ct", "cI", "D", "s", "B",
     "df", "di", "dd"}

StatCodes == {"df", "di", "dd"}

AllSupported == \A i \in 1..Len(formats) : formats[i] \in Supported
HasBadCode == \E i \in 1..Len(formats) : formats[i] \notin Supported

Walk == WalkOrder(Len(commits), oldest_first)

\* the commits the walk has yielded so far
Yielded ==
    IF pc \in {"start", "refs", "revwalk"} \/ (pc = "failed" /\ commit = None) THEN 0
    ELSE Len(Walk) - Len(revwalk)

IsData(l) == l.kind # "header"
DataLines == SelectSeq(out, IsData)
DataOids == [i \in 1..Len(DataLines) |-> DataLines[i].oid]

\* the value a printed record holds under a key
ValueOf(map, k) == (CHOOSE e \in {map[i] : i \in 1..Len(map)} : e.k = k).v

Terminated == pc \in {"done", "failed", "panicked"}
FailedInRow == pc = "failed" /\ commit # None

-----------------------------------------------------------------------------
\* C1: with only supported codes in the field list, every printed record (JSON
\* object, CSV header, CSV row) has the requested codes as its keys: as many as
\* were requested, in the order requested, a repeated code once per occurrence.
C1_RecordHasRequestedFields ==
    AllSupported =>
        \A i \in 1..Len(out) :
            /\ MapKeys(out[i].map) = formats
            /\ out[i].kind = "header" => out[i].text = Join(formats, ",")

\* C2: the first printed record holds the empty string under every requested
\* df, di and dd.
C2_FirstRecordDiffEmpty ==
    \A i \in 1..Len(DataLines) :
        i = 1 =>
            \A k \in StatCodes :
                MapHas(DataLines[i].map, k) => ValueOf(DataLines[i].map, k) = VString("")

\* the shorthands of the refs that peel to commit c, in enumeration order
RefNamesOf(c) ==
    LET hit == SelectSeq(refs, LAMBDA r : r.ok /\ r.shorthand /\ r.target = Some(c))
    IN  [i \in 1..Len(hit) |-> hit[i].name]

\* C3: when D is requested, the record of every visited commit holds under D
\* the shorthands of all refs that target the commit, in enumeration order (so
\* they appear in that record and in no other).
C3_RefsInOwnRecord ==
    \A i \in 1..Len(DataLines) :
        MapHas(DataLines[i].map, "D") =>
            ValueOf(DataLines[i].map, "D") = VArray(RefNamesOf(DataLines[i].oid))

Reasons ==
    {"Mailmaps not currently supported, consider using 'an'/'ae' instead of 'aN'/'aE'",
     "Formatted dates not supported, use 'aI' and format the date yourself",
     "Formatted dates not supported, use 'cI' and format the date yourself",
     "Formatted ref names not supported, use 'D' and format the names yourself",
     "Body not supported, use 'B' and extract the body yourself",
     "Notes not currently supported",
     "Signatures not currently supported",
     "Not found"}

\* the errors that name a code
NamingErrors(code) == {"Invalid format '" \o code \o "': " \o r : r \in Reasons}

DataErrors ==
    {"Author name contains invalid UTF8", "Author email contains invalid UTF8",
     "Commit header contains invalid UTF8", "Commit message contains invalid UTF8",
     Git2Error}

FirstBad == CHOOSE i \in 1..Len(formats) :
                /\ formats[i] \notin Supported
                /\ \A j \in 1..(i - 1) : formats[j] \in Supported

-----------------------------------------------------------------------------
\* the distinct codes of the field list
FormatSet == {formats[i] : i \in 1..Len(formats)}

\* a printed record that holds a value for every requested code
Complete(l) == {l.map[i].k : i \in 1..Len(l.map)} = FormatSet

\* resolving code f of commit c fails: the code is not supported, or the data
\* it reads cannot be decoded or abbreviated
FieldFails(f, c) ==
    \/ f \notin Supported
    \/ f \in {"an", "ae", "s", "B", "h", "t"} /\ commits[c].bad = f
    \/ f = "p" /\ commits[c].bad = "p" /\ c > 1
    \/ f = "t" /\ ~commits[c].hasTree

\* a requested field of the k-th commit of the walk fails
FailsAt(k) == \E i \in 1..Len(formats) : FieldFails(formats[i], Walk[k])

\* C5: when a field of the k-th commit of the walk fails, the run ends in
\* failure; what it has printed is the complete records of commits 1..k-1 and
\* nothing of commit k, and nothing more is printed.
C5_FieldFailureStopsRun ==
    /\ \A i \in 1..Len(DataLines) :
          /\ DataLines[i].oid = Walk[i]
          /\ Complete(DataLines[i])
          /\ \A j \in 1..i : ~FailsAt(j)
    /\ (pc \in {"walk", "done"} /\ Yielded >= 1) => ~FailsAt(Yielded)
    /\ FailedInRow =>
          /\ Yielded >= 1
          /\ FailsAt(Yielded)
          /\ commit = Some(Walk[Yielded])
          /\ DataOids = SubSeq(Walk, 1, Yielded - 1)
          /\ Len(out) = IF output_format = "csv" /\ Yielded > 1 THEN Yielded ELSE Yielded - 1
          /\ err \in DataErrors \cup UNION {NamingErrors(c) : c \in FormatSet}
          /\ ~ENABLED Next

C5_Witness ==
    /\ FailedInRow
    /\ Yielded = 2
    /\ Len(DataLines) = 1

\* a value as bare text: a string without quotes
CellBare(v) ==
    CASE v.t = "str" -> v.s
      [] v.t = "num" -> ToString(v.n)
      [] v.t = "arr" -> "[" \o Join([i \in 1..Len(v.a) |-> "\"" \o v.a[i] \o "\""], ",") \o "]"

\* a value in its JSON form: a string in double quotes
CellJson(v) ==
    CASE v.t = "str" -> "\"" \o v.s \o "\""
      [] v.t = "num" -> ToString(v.n)
      [] v.t = "arr" -> "[" \o Join([i \in 1..Len(v.a) |-> "\"" \o v.a[i] \o "\""], ",") \o "]"

\* JSON and CSV print the records of the same commits in the same order, the
\* JSON line being the object of the record and the CSV header its keys
SameRecords(cell(_)) ==
    /\ pc = "done" => DataOids = Walk
    /\ \A i \in 1..Len(out) :
        LET l == out[i] IN
        /\ l.kind = "json" =>
              l.text = "{" \o Join([j \in 1..Len(l.map) |->
                                       "\"" \o l.map[j].k \o "\":" \o CellJson(l.map[j].v)], ",")
                       \o "}"
        /\ l.kind = "header" => l.text = Join([j \in 1..Len(l.map) |-> l.map[j].k], ",")
        /\ l.kind = "row" => l.text = Join([j \in 1..Len(l.map) |-> cell(l.map[j].v)], ",")
        /\ l.kind = (IF output_format = "json" THEN "json"
                     ELSE IF i = 1 THEN "header" ELSE "row")

C7_CsvHeaderOnce ==
    output_format = "csv" =>
        /\ \A i \in 1..Len(out) :
              /\ out[i].kind = (IF i = 1 THEN "header" ELSE "row")
              /\ i > 1 => out[i].oid = Walk[i - 1]
        /\ Len(out) # 1
        /\ pc = "done" =>
              Len(out) = IF Len(commits) = 0 THEN 0 ELSE Len(commits) + 1

C7_Witness ==
    /\ output_format = "csv"
    /\ pc = "done"
    /\ Len(commits) >= 2
    /\ Len(out) = Len(commits) + 1

\* the statistics of the diff from the tree of commit a to the tree of commit b
\* (a tree that cannot be loaded counts as empty on the new side)
ExpectedStat(k, a, b) ==
    LET old == commits[a].files
        new == IF commits[b].hasTree THEN commits[b].files ELSE {}
    IN  CASE k = "df" -> Cardinality((old \ new) \cup (new \ old))
          [] k = "di" -> Cardinality(new \ old)
          [] k = "dd" -> Cardinality(old \ new)

\* C8: the previous-commit slot is empty until the first commit has been
\* processed and then holds the commit the walk yielded last, so that the diff
\* of the commit at position k >= 2 is taken from the tree of the commit at
\* position k - 1, and the df, di, dd of its record are the statistics of that
\* diff.
C8_DiffAgainstPreviousRow ==
    /\ prevcommit = IF Yielded = 0 THEN None ELSE Some(Walk[Yielded])
    /\ (pc = "row" /\ Yielded >= 2) =>
          diffstats = Some([files_changed |-> ExpectedStat("df", Walk[Yielded - 1], Walk[Yielded]),
                            insertions    |-> ExpectedStat("di", Walk[Yielded - 1], Walk[Yielded]),
                            deletions     |-> ExpectedStat("dd", Walk[Yielded - 1], Walk[Yielded])])
    /\ \A i \in 2..Len(DataLines) :
          /\ DataLines[i].oid = Walk[i]
          /\ \A k \in StatCodes :
                MapHas(DataLines[i].map, k) =>
                    ValueOf(DataLines[i].map, k)
                        = VString(ToString(ExpectedStat(k, Walk[i - 1], Walk[i])))

\* a second row whose diff against the previous row differs from the diff
\* against its parent
C8_Witness ==
    /\ ~oldest_first
    /\ Len(commits) = 2
    /\ Len(DataLines) = 2
    /\ MapHas(DataLines[2].map, "dd")
    /\ ValueOf(DataLines[2].map, "dd") = VString("1")

\* C9: the only failure while the reference index is built is a failure of the
\* enumeration of the refs: a ref without a shorthand or one that does not
\* resolve to a commit is skipped.
C9_OnlyEnumerationAborts ==
    (pc = "failed" /\ commit = None) => ~refs[refIdx].ok

\* C10: a commit whose tree, or whose predecessor's tree, cannot be loaded is
\* printed with empty df, di and dd, and the run does not crash.
C10_MissingTreeEmptyStats ==
    /\ pc # "panicked"
    /\ \A i \in 1..Len(DataLines) :
          (\/ ~commits[Walk[i]].hasTree
           \/ (i > 1 /\ ~commits[Walk[i - 1]].hasTree)) =>
              \A k \in StatCodes :
                  MapHas(DataLines[i].map, k) => ValueOf(DataLines[i].map, k) = VString("")

=============================================================================
